---- MODULE Spec2Model ----
(***************************************************************************)
(* Model of src/lib.rs of vec-string-to-static-str:                        *)
(*   vec_string_to_static_str        (lib.rs:25-33), the leaking converter *)
(*   unsafe_vec_string_to_static_str (lib.rs:64-72), the transmuting one   *)
(* together with the heap the two functions act on and the callers that    *)
(* own the input vectors (the shape of the callers is that of the tests,   *)
(* lib.rs:78-196: build a Vec<String>, call, use the result).              *)
(*                                                                         *)
(* Storage is modelled by allocation, not by address: a pointer is the     *)
(* index of a block of `heap` (its provenance), 0 for the dangling pointer *)
(* of a zero-sized buffer.  A String is [ptr, len, cap]; String::from,     *)
(* to_string and clone make it with cap = len.  A &str is [ptr, len].      *)
(***************************************************************************)
EXTENDS Naturals, Sequences, FiniteSets

VARIABLES
    heap,       \* Seq of blocks [st, bytes]: every string-content allocation ever made
    strings,    \* strings[t]: the caller's Vec<String>, a Seq of [ptr, len, cap]
    alive,      \* alive[t]: the caller's vector has not been dropped
    pc,         \* pc[t]: "idle" | "loop" (at the head of the for loop) | "cloned"
    fn,         \* fn[t]: "none" | "safe" | "unsafe", the function t is executing
    arg,        \* arg[t]: the argument of the call in progress, as it was at the call
    strs,       \* strs[t]: the local `strs` of the call in progress
    boxed,      \* boxed[t]: the Box<str> made by clone().into_boxed_str(), not yet leaked
    returned,   \* returned[t]: Seq of the results of the calls of t that returned
    aborted,    \* the process was terminated by handle_alloc_error
    ops         \* number of caller actions taken on the inputs so far

vars == <<heap, strings, alive, pc, fn, arg, strs, boxed, returned, aborted, ops>>

(***************************************************************************)
(* Bounds of the model.                                                    *)
(***************************************************************************)
MaxElems == 2       \* Strings in the input vectors, over all callers
MaxCalls == 2       \* calls made in one run, over all callers
MaxOps == 1         \* caller actions on the inputs in one run

Threads == {1, 2}

\* "", "a" and "é" (U+00E9, the two bytes C3 A9): empty, ASCII and multi-byte content
Contents == { <<>>, <<97>>, <<195, 169>> }

NoAlloc == 0
NoBox == [ptr |-> NoAlloc, len |-> 0, some |-> FALSE]
NoArg == [vec |-> <<>>, content |-> <<>>, heapLen |-> 0]

RECURSIVE SeqsUpTo(_, _)
SeqsUpTo(S, n) ==
    IF n = 0 THEN { <<>> }
    ELSE LET shorter == SeqsUpTo(S, n - 1)
         IN  shorter \cup { Append(s, x) : s \in {q \in shorter : Len(q) = n - 1}, x \in S }

RECURSIVE SumLen(_)
SumLen(ss) == IF ss = <<>> THEN 0 ELSE Len(Head(ss)) + SumLen(Tail(ss))

(***************************************************************************)
(* Memory primitives the two functions call.                               *)
(***************************************************************************)
\* memcpy of the first n bytes of src (slice::to_vec inside String::clone)
CopyBytes(src, n) == [k \in 1..n |-> src[k]]

\* what a read of the view v yields in the heap h while its block is allocated
ReadIn(h, v) == IF v.len = 0 THEN <<>> ELSE CopyBytes(h[v.ptr].bytes, v.len)
ReadStr(v) == ReadIn(heap, v)

\* the &str of a String: String::as_str, the same buffer and length
AsStr(s) == [ptr |-> s.ptr, len |-> s.len]

\* the contents of a Vec<String>, element by element
ContentOf(v) == [k \in 1..Len(v) |-> ReadStr(AsStr(v[k]))]

\* mutant of CloneBytes: a lossy copy that replaces every non-ASCII byte by '?'
CloneBytesLossy(s) ==
    [k \in 1..s.len |-> IF heap[s.ptr].bytes[k] >= 128 THEN 63 ELSE heap[s.ptr].bytes[k]]

\* String::clone: a buffer of exactly len bytes holding a copy; no allocation for ""
CloneBytes(s) == CopyBytes(heap[s.ptr].bytes, s.len)

\* u8::to_ascii_uppercase
ToAsciiUppercase(b) == IF b >= 97 /\ b <= 122 THEN b - 32 ELSE b

\* RawVec::grow_amortized for a Vec<u8> that must hold one more byte
GrownCap(s) ==
    LET dbl == 2 * s.cap
        big == IF dbl > s.len + 1 THEN dbl ELSE s.len + 1
    IN  IF big > 8 THEN big ELSE 8

Released(v) == v.len > 0 /\ heap[v.ptr].st = "released"

InCall(t) == pc[t] # "idle"
CallsMade ==
    LET n(t) == Len(returned[t]) + (IF InCall(t) THEN 1 ELSE 0)
    IN  n(1) + n(2)

\* the element the for loop of t is at (lib.rs:28, lib.rs:67)
Current(t) == strings[t][Len(strs[t]) + 1]
MoreElements(t) == Len(strs[t]) < Len(strings[t])

(***************************************************************************)
(* Initial states: each caller owns a Vec<String> built with to_string /   *)
(* String::from (lib.rs:80, 89, 97, 106, 115); nothing has been called.    *)
(***************************************************************************)
InputVecs == SeqsUpTo(Contents, MaxElems)

Rank(all, k) == Cardinality({j \in 1..k : all[j] # <<>>})

HeapOf(all) ==
    [n \in 1..Rank(all, Len(all)) |->
        [st |-> "owned",
         bytes |-> all[CHOOSE k \in 1..Len(all) : all[k] # <<>> /\ Rank(all, k) = n]]]

StringsOf(all, from, n) ==
    [k \in 1..n |->
        IF all[from + k] = <<>>
        THEN [ptr |-> NoAlloc, len |-> 0, cap |-> 0]
        ELSE [ptr |-> Rank(all, from + k), len |-> Len(all[from + k]),
              cap |-> Len(all[from + k])]]

InitWith(c1, c2, up) ==
    /\ heap = HeapOf(c1 \o c2)
    /\ strings = [t \in Threads |->
                     IF t = 1 THEN StringsOf(c1 \o c2, 0, Len(c1))
                              ELSE StringsOf(c1 \o c2, Len(c1), Len(c2))]
    /\ alive = [t \in Threads |-> t \in up]
    /\ pc = [t \in Threads |-> "idle"]
    /\ fn = [t \in Threads |-> "none"]
    /\ arg = [t \in Threads |-> NoArg]
    /\ strs = [t \in Threads |-> <<>>]
    /\ boxed = [t \in Threads |-> NoBox]
    /\ returned = [t \in Threads |-> <<>>]
    /\ aborted = FALSE
    /\ ops = 0

\* one caller: thread 1 owns a vector, thread 2 has none and makes no call
Init == \E c1 \in InputVecs : InitWith(c1, <<>>, {1})

\* two callers, each with a vector of its own (disjoint inputs)
InitConc ==
    \E c1 \in InputVecs, c2 \in InputVecs :
        /\ Len(c1) >= 1 /\ Len(c2) >= 1 /\ Len(c1) + Len(c2) <= MaxElems + 1
        /\ InitWith(c1, c2, Threads)

(***************************************************************************)
(* vec_string_to_static_str (lib.rs:25-33) and                             *)
(* unsafe_vec_string_to_static_str (lib.rs:64-72)                          *)
(***************************************************************************)
\* the call itself and `let mut strs = Vec::new()` (lib.rs:25-26, 64-65)
Call(t, f) ==
    /\ ~aborted /\ pc[t] = "idle" /\ alive[t]
    /\ CallsMade < MaxCalls
    /\ pc' = [pc EXCEPT ![t] = "loop"]
    /\ fn' = [fn EXCEPT ![t] = f]
    /\ arg' = [arg EXCEPT ![t] = [vec |-> strings[t], content |-> ContentOf(strings[t]),
                                  heapLen |-> Len(heap)]]
    /\ strs' = [strs EXCEPT ![t] = <<>>]
    /\ UNCHANGED <<heap, strings, alive, boxed, returned, aborted, ops>>

\* mutant of BoxedClone: interning, an equal string leaked earlier is reused
BoxedIntern(t) ==
    LET same == {b \in 1..Len(heap) :
                    heap[b].st = "leaked" /\ heap[b].bytes = CloneBytes(Current(t))}
    IN  IF Current(t).len = 0
        THEN /\ heap' = heap
             /\ boxed' = [boxed EXCEPT ![t] = [ptr |-> NoAlloc, len |-> 0, some |-> TRUE]]
        ELSE IF same # {}
        THEN /\ heap' = heap
             /\ boxed' = [boxed EXCEPT ![t] =
                             [ptr |-> CHOOSE b \in same : TRUE, len |-> Current(t).len,
                              some |-> TRUE]]
        ELSE /\ heap' = Append(heap, [st |-> "owned", bytes |-> CloneBytes(Current(t))])
             /\ boxed' = [boxed EXCEPT ![t] =
                             [ptr |-> Len(heap) + 1, len |-> Current(t).len, some |-> TRUE]]

\* mutant of BoxedClone: the copy carries a terminating NUL, which is leaked with it
BoxedCloneNul(t) ==
    /\ heap' = Append(heap, [st |-> "owned", bytes |-> Append(CloneBytes(Current(t)), 0)])
    /\ boxed' = [boxed EXCEPT ![t] =
                    [ptr |-> Len(heap) + 1, len |-> Current(t).len, some |-> TRUE]]

\* string.clone().into_boxed_str() (lib.rs:29): clone copies into a buffer with
\* capacity = len, so into_boxed_str has nothing to shrink; "" allocates nothing
BoxedClone(t) ==
    IF Current(t).len = 0
    THEN /\ heap' = heap
         /\ boxed' = [boxed EXCEPT ![t] = [ptr |-> NoAlloc, len |-> 0, some |-> TRUE]]
    ELSE /\ heap' = Append(heap, [st |-> "owned", bytes |-> CloneBytes(Current(t))])
         /\ boxed' = [boxed EXCEPT ![t] =
                         [ptr |-> Len(heap) + 1, len |-> Current(t).len, some |-> TRUE]]

\* mutant of CloneStep: the buffer is moved out of the input (mem::take), not cloned
CloneStepTake(t) ==
    /\ ~aborted /\ pc[t] = "loop" /\ fn[t] = "safe" /\ MoreElements(t)
    /\ boxed' = [boxed EXCEPT ![t] =
                    [ptr |-> Current(t).ptr, len |-> Current(t).len, some |-> TRUE]]
    /\ strings' = [strings EXCEPT ![t][Len(strs[t]) + 1] =
                      [ptr |-> NoAlloc, len |-> 0, cap |-> 0]]
    /\ pc' = [pc EXCEPT ![t] = "cloned"]
    /\ UNCHANGED <<heap, alive, fn, arg, strs, returned, aborted, ops>>

CloneStep(t) ==
    /\ ~aborted /\ pc[t] = "loop" /\ fn[t] = "safe" /\ MoreElements(t)
    /\ BoxedClone(t)
    /\ pc' = [pc EXCEPT ![t] = "cloned"]
    /\ UNCHANGED <<strings, alive, fn, arg, strs, returned, aborted, ops>>

\* mutant of Leak: the box is dropped at the end of the statement instead of leaked
LeakDropped(h, b) == IF b.len = 0 THEN h ELSE [h EXCEPT ![b.ptr].st = "released"]

\* Box::leak: the box gives its block up for good; a zero-sized box has none
Leak(h, b) == IF b.len = 0 THEN h ELSE [h EXCEPT ![b.ptr].st = "leaked"]

\* mutant of LeakPush: the box waits in a slot shared by all calls, the last one
\* stored wins
LeakPushShared(t) ==
    /\ ~aborted /\ pc[t] = "cloned"
    /\ \E u \in Threads :
           /\ boxed[u].some
           /\ \A w \in Threads : boxed[w].some => boxed[w].ptr <= boxed[u].ptr
           /\ heap' = Leak(heap, boxed[u])
           /\ strs' = [strs EXCEPT ![t] =
                          Append(@, [ptr |-> boxed[u].ptr, len |-> boxed[u].len])]
    /\ boxed' = [boxed EXCEPT ![t] = NoBox]
    /\ pc' = [pc EXCEPT ![t] = "loop"]
    /\ UNCHANGED <<strings, alive, fn, arg, returned, aborted, ops>>

\* strs.push(Box::leak(..)) (lib.rs:29)
LeakPush(t) ==
    /\ ~aborted /\ pc[t] = "cloned"
    /\ heap' = Leak(heap, boxed[t])
    /\ strs' = [strs EXCEPT ![t] = Append(@, [ptr |-> boxed[t].ptr, len |-> boxed[t].len])]
    /\ boxed' = [boxed EXCEPT ![t] = NoBox]
    /\ pc' = [pc EXCEPT ![t] = "loop"]
    /\ UNCHANGED <<strings, alive, fn, arg, returned, aborted, ops>>

\* mutant of Transmute: the length of the view counts characters, not bytes
TransmuteChars(s) ==
    [ptr |-> s.ptr,
     len |-> Cardinality({k \in 1..s.len :
                 heap[s.ptr].bytes[k] < 128 \/ heap[s.ptr].bytes[k] >= 192})]

\* mutant of TransmutePush: the unchecked variant leaks a copy like the safe one
TransmutePushCopy(t) ==
    /\ ~aborted /\ pc[t] = "loop" /\ fn[t] = "unsafe" /\ MoreElements(t)
    /\ IF Current(t).len = 0
       THEN /\ heap' = heap
            /\ strs' = [strs EXCEPT ![t] = Append(@, [ptr |-> NoAlloc, len |-> 0])]
       ELSE /\ heap' = Append(heap, [st |-> "leaked", bytes |-> CloneBytes(Current(t))])
            /\ strs' = [strs EXCEPT ![t] =
                           Append(@, [ptr |-> Len(heap) + 1, len |-> Current(t).len])]
    /\ UNCHANGED <<strings, alive, pc, fn, arg, boxed, returned, aborted, ops>>

\* strs.push(transmute::<&str, &'static str>(string.as_str())) (lib.rs:68)
Transmute(s) == AsStr(s)

TransmutePush(t) ==
    /\ ~aborted /\ pc[t] = "loop" /\ fn[t] = "unsafe" /\ MoreElements(t)
    /\ strs' = [strs EXCEPT ![t] = Append(@, Transmute(Current(t)))]
    /\ UNCHANGED <<heap, strings, alive, pc, fn, arg, boxed, returned, aborted, ops>>

\* mutant of OnAllocError: the failure ends the loop and what was converted so
\* far is returned
OnAllocErrorPartial(t) ==
    /\ returned' = [returned EXCEPT ![t] =
                       Append(@, [fn |-> fn[t], out |-> strs[t], vec |-> arg[t].vec,
                                  content |-> arg[t].content, heapLen |-> arg[t].heapLen])]
    /\ pc' = [pc EXCEPT ![t] = "idle"]
    /\ fn' = [fn EXCEPT ![t] = "none"]
    /\ arg' = [arg EXCEPT ![t] = NoArg]
    /\ strs' = [strs EXCEPT ![t] = <<>>]
    /\ boxed' = [boxed EXCEPT ![t] = NoBox]
    /\ UNCHANGED <<heap, strings, alive, aborted, ops>>

\* the allocator cannot satisfy the clone's buffer (lib.rs:29) or the growth of
\* strs in push (lib.rs:29, 68): handle_alloc_error terminates the process
OnAllocError(t) ==
    /\ aborted' = TRUE
    /\ UNCHANGED <<heap, strings, alive, pc, fn, arg, strs, boxed, returned, ops>>

AllocFail(t) ==
    /\ ~aborted
    /\ \/ pc[t] = "loop" /\ fn[t] = "safe" /\ MoreElements(t) /\ Current(t).len > 0
       \/ pc[t] = "cloned"
       \/ pc[t] = "loop" /\ fn[t] = "unsafe" /\ MoreElements(t)
    /\ OnAllocError(t)

\* the end of the loop and the returned `strs` (lib.rs:32, 71)
Return(t) ==
    /\ ~aborted /\ pc[t] = "loop" /\ ~MoreElements(t)
    /\ returned' = [returned EXCEPT ![t] =
                       Append(@, [fn |-> fn[t], out |-> strs[t], vec |-> arg[t].vec,
                                  content |-> arg[t].content, heapLen |-> arg[t].heapLen])]
    /\ pc' = [pc EXCEPT ![t] = "idle"]
    /\ fn' = [fn EXCEPT ![t] = "none"]
    /\ arg' = [arg EXCEPT ![t] = NoArg]
    /\ strs' = [strs EXCEPT ![t] = <<>>]
    /\ UNCHANGED <<heap, strings, alive, boxed, aborted, ops>>

(***************************************************************************)
(* The caller, between calls: it owns its Vec<String> and may mutate,      *)
(* reallocate or destroy it.  Reading a view changes nothing: ReadOutcomes *)
(* gives what a read can yield in the current state.  The borrow           *)
(* `strings: &Vec<String>` (lib.rs:25, 64) keeps the caller off its vector *)
(* while a call on it is in progress.                                      *)
(***************************************************************************)
CallerMay(t) == ~aborted /\ pc[t] = "idle" /\ alive[t] /\ ops < MaxOps

\* strings[i].make_ascii_uppercase(): rewrites the buffer in place
MakeAsciiUppercase(t, i) ==
    /\ CallerMay(t) /\ strings[t][i].len > 0
    /\ heap' = [heap EXCEPT ![strings[t][i].ptr].bytes =
                   [k \in 1..Len(@) |-> ToAsciiUppercase(@[k])]]
    /\ ops' = ops + 1
    /\ UNCHANGED <<strings, alive, pc, fn, arg, strs, boxed, returned, aborted>>

\* strings[i].push('a'): in place while len < cap; otherwise the buffer is
\* reallocated, which ends the old block whether or not the address changes
PushChar(t, i) ==
    LET s == strings[t][i] IN
    /\ CallerMay(t)
    /\ IF s.len < s.cap
       THEN /\ heap' = [heap EXCEPT ![s.ptr].bytes = Append(@, 97)]
            /\ strings' = [strings EXCEPT ![t][i].len = s.len + 1]
       ELSE /\ heap' = Append(IF s.cap = 0 THEN heap
                                           ELSE [heap EXCEPT ![s.ptr].st = "released"],
                              [st |-> "owned", bytes |-> Append(ReadStr(AsStr(s)), 97)])
            /\ strings' = [strings EXCEPT ![t][i] =
                              [ptr |-> Len(heap) + 1, len |-> s.len + 1, cap |-> GrownCap(s)]]
    /\ ops' = ops + 1
    /\ UNCHANGED <<alive, pc, fn, arg, strs, boxed, returned, aborted>>

\* drop(strings): every buffer of the vector goes back to the allocator
DropVec(t) ==
    /\ CallerMay(t)
    /\ heap' = [b \in 1..Len(heap) |->
                   IF \E i \in 1..Len(strings[t]) :
                          strings[t][i].cap > 0 /\ strings[t][i].ptr = b
                   THEN [heap[b] EXCEPT !.st = "released"] ELSE heap[b]]
    /\ strings' = [strings EXCEPT ![t] = <<>>]
    /\ alive' = [alive EXCEPT ![t] = FALSE]
    /\ ops' = ops + 1
    /\ UNCHANGED <<pc, fn, arg, strs, boxed, returned, aborted>>

\* What a read through a returned view can yield.  While the block is allocated
\* the read yields the block's bytes.  Through a released block it is undefined
\* behaviour: the bytes last stored there, other bytes, or a fault.
ReadOutcomes(v) ==
    IF Released(v)
    THEN {[fault |-> FALSE, bytes |-> ReadStr(v)],
          [fault |-> FALSE, bytes |-> [k \in 1..v.len |-> 0]],
          [fault |-> TRUE, bytes |-> <<>>]}
    ELSE {[fault |-> FALSE, bytes |-> ReadStr(v)]}

Next ==
    \/ \E t \in Threads, f \in {"safe", "unsafe"} : Call(t, f)
    \/ \E t \in Threads : CloneStep(t)
    \/ \E t \in Threads : LeakPush(t)
    \/ \E t \in Threads : TransmutePush(t)
    \/ \E t \in Threads : AllocFail(t)
    \/ \E t \in Threads : Return(t)
    \/ \E t \in Threads : \E i \in 1..Len(strings[t]) : MakeAsciiUppercase(t, i)
    \/ \E t \in Threads : \E i \in 1..Len(strings[t]) : PushChar(t, i)
    \/ \E t \in Threads : DropVec(t)

Spec == Init /\ [][Next]_vars

\* the steps of the two functions alone, for callers running them concurrently
NextConc ==
    \/ \E t \in Threads, f \in {"safe", "unsafe"} : Call(t, f)
    \/ \E t \in Threads : CloneStep(t)
    \/ \E t \in Threads : LeakPush(t)
    \/ \E t \in Threads : TransmutePush(t)
    \/ \E t \in Threads : AllocFail(t)
    \/ \E t \in Threads : Return(t)

SpecConc == InitConc /\ [][NextConc]_vars


(***************************************************************************)
(* Definitions the properties below are stated with.                       *)
(***************************************************************************)
\* the calls that have returned, each named by its caller and its rank
Calls == UNION {{<<t, r>> : r \in 1..Len(returned[t])} : t \in Threads}
Res(c) == returned[c[1]][c[2]]
Views(c) == 1..Len(Res(c).out)
SafeCalls == {c \in Calls : Res(c).fn = "safe"}
UnsafeCalls == {c \in Calls : Res(c).fn = "unsafe"}

RECURSIVE LeakedBytes(_)
LeakedBytes(h) ==
    IF h = <<>> THEN 0
    ELSE (IF Head(h).st = "leaked" THEN Len(Head(h).bytes) ELSE 0) + LeakedBytes(Tail(h))

\* the caller has mutated, reallocated or destroyed element i of the input of call c
CallerTouched(c, i) ==
    \/ ~alive[c[1]]
    \/ strings[c[1]][i] # Res(c).vec[i]
    \/ ReadStr(AsStr(strings[c[1]][i])) # Res(c).content[i]

\* the block of the view v is allocated and holds what it held at the call
Intact(v, snap) == v.len = 0 \/ (heap[v.ptr].st # "released" /\ heap[v.ptr].bytes = snap)

\* blocks of the buffers of caller t's vector, and of the views a call handed out
InputPtrs(t) == {strings[t][i].ptr : i \in {j \in 1..Len(strings[t]) : strings[t][j].cap > 0}}
PtrsOf(out) == {out[i].ptr : i \in {j \in 1..Len(out) : out[j].len > 0}}
ViewPtrs(t) ==
    PtrsOf(strs[t]) \cup (IF boxed[t].len > 0 THEN {boxed[t].ptr} ELSE {})
        \cup UNION {PtrsOf(returned[t][r].out) : r \in 1..Len(returned[t])}

(***************************************************************************)
(* C1: when vec_string_to_static_str(S) returns, the returned sequence has *)
(* the length of S and its element i reads byte for byte what S[i] holds,  *)
(* in the same order, nothing reordered, deduplicated or filtered out.     *)
(***************************************************************************)
C1_SafeReturnsInput ==
    [][\A t \in Threads :
          (pc[t] = "loop" /\ fn[t] = "safe" /\ pc'[t] = "idle") =>
              LET out == returned'[t][Len(returned'[t])].out IN
              /\ Len(out) = Len(strings[t])
              /\ \A i \in 1..Len(out) :
                     /\ out[i].len = strings[t][i].len
                     /\ ReadIn(heap', out[i]) = ReadIn(heap, AsStr(strings[t][i]))]_vars

\* a safe call returned for the input ["", "é"]: an empty and a multi-byte element
C1_Witness ==
    \E c \in SafeCalls : Res(c).content = << <<>>, <<195, 169>> >> /\ Len(Res(c).out) = 2

(***************************************************************************)
(* C2: every view returned by vec_string_to_static_str stays valid and     *)
(* keeps reading the content its element had at the call, whatever the     *)
(* caller does to the input afterwards: its block is leaked, is never      *)
(* released and never holds other bytes, and a read through it yields the  *)
(* content at the call.                                                    *)
(***************************************************************************)
C2_SafeViewsPersist ==
    /\ \A c \in SafeCalls : \A i \in Views(c) :
           LET v == Res(c).out[i] IN
           /\ v.len = Len(Res(c).content[i])
           /\ v.len > 0 => /\ heap[v.ptr].st = "leaked"
                           /\ heap[v.ptr].bytes = Res(c).content[i]
           /\ ReadOutcomes(v) = {[fault |-> FALSE, bytes |-> Res(c).content[i]]}

\* the caller destroyed the input of a safe call that returned a view of a
\* non-empty element
C2_Witness ==
    \E c \in SafeCalls : ~alive[c[1]] /\ \E i \in Views(c) : Res(c).out[i].len > 0

(***************************************************************************)
(* C3 as stated: every view of every call of vec_string_to_static_str      *)
(* refers to its own freshly allocated storage, distinct from the input's  *)
(* storage, from the storage of every other view of the same call and from *)
(* the storage of every view of any other call.                            *)
(***************************************************************************)
C3_EveryViewOwnStorage ==
    \A c \in SafeCalls : \A i \in Views(c) :
        LET v == Res(c).out[i] IN
        /\ v.ptr > Res(c).heapLen /\ v.ptr <= Len(heap)
        /\ v.ptr # Res(c).vec[i].ptr
        /\ \A d \in SafeCalls : \A j \in Views(d) :
               <<c, i>> # <<d, j>> => Res(d).out[j].ptr # v.ptr

(***************************************************************************)
(* C3 amended: each call of vec_string_to_static_str returns a sequence    *)
(* equal to its input, and every view of a non-empty element refers to its *)
(* own block, allocated during the call, leaked, and distinct from every   *)
(* buffer of the input, from the block of every other view of the same     *)
(* call (also for equal elements) and of every other call; the view of an  *)
(* empty element has length 0 and refers to no allocation at all.          *)
(***************************************************************************)
C3_NonEmptyViewOwnStorage ==
    \A c \in SafeCalls : \A i \in Views(c) :
        LET v == Res(c).out[i] IN
        /\ ReadStr(v) = Res(c).content[i]
        /\ v.len = 0 => v.ptr = NoAlloc
        /\ v.len > 0 =>
               /\ v.ptr > Res(c).heapLen /\ v.ptr <= Len(heap)
               /\ heap[v.ptr].st = "leaked"
               /\ v.ptr \notin PtrsOf(Res(c).vec) \cup InputPtrs(c[1])
               /\ \A d \in SafeCalls : \A j \in Views(d) :
                      (<<c, i>> # <<d, j>> /\ Res(d).out[j].len > 0)
                          => Res(d).out[j].ptr # v.ptr

\* two safe calls on the same input ["a", "a"] have returned
C3_Witness ==
    \E c \in SafeCalls, d \in SafeCalls :
        /\ c # d /\ Res(c).vec = Res(d).vec
        /\ Res(c).content = << <<97>>, <<97>> >>

(***************************************************************************)
(* C4: the total of leaked storage never decreases, and it is exactly the  *)
(* sum of the byte lengths of the elements converted so far by             *)
(* vec_string_to_static_str: each call that returns has added the sum of   *)
(* the byte lengths of its input, and no caller action takes any away.     *)
(***************************************************************************)
LeakExpected ==
    LET done(t, r) == IF returned[t][r].fn = "safe" THEN SumLen(returned[t][r].content) ELSE 0
        RECURSIVE doneUpTo(_, _)
        doneUpTo(t, r) == IF r = 0 THEN 0 ELSE done(t, r) + doneUpTo(t, r - 1)
        inFlight(t) == IF fn[t] = "safe"
                       THEN SumLen(SubSeq(arg[t].content, 1, Len(strs[t]))) ELSE 0
        of(t) == doneUpTo(t, Len(returned[t])) + inFlight(t)
    IN  of(1) + of(2)

C4_LeakAccounting ==
    /\ [](LeakedBytes(heap) = LeakExpected)
    /\ [][LeakedBytes(heap') >= LeakedBytes(heap)]_vars

\* a safe call on ["a", "é"] returned and the caller then dropped the input:
\* the three bytes stay leaked
C4_Witness ==
    /\ \E c \in SafeCalls : Res(c).content = << <<97>>, <<195, 169>> >> /\ ~alive[c[1]]
    /\ LeakedBytes(heap) = 3

(***************************************************************************)
(* C5: unsafe_vec_string_to_static_str(S) returns a sequence of the length *)
(* of S, and while the storage of S stays alive and unmodified its element *)
(* i reads byte for byte what S[i] holds, in the same order: the result    *)
(* vec_string_to_static_str gives for S.                                   *)
(***************************************************************************)
C5_UnsafeReturnsInput ==
    \A c \in UnsafeCalls :
        /\ Len(Res(c).out) = Len(Res(c).content)
        /\ \A i \in Views(c) :
               ~CallerTouched(c, i) =>
                   /\ Res(c).out[i].len = Len(Res(c).content[i])
                   /\ ~Released(Res(c).out[i])
                   /\ ReadStr(Res(c).out[i]) = ReadStr(AsStr(strings[c[1]][i]))
                   /\ ReadStr(Res(c).out[i]) = Res(c).content[i]

\* an unsafe call returned for the input ["", "é"], which is still as it was
C5_Witness ==
    \E c \in UnsafeCalls :
        /\ Res(c).content = << <<>>, <<195, 169>> >>
        /\ \A i \in Views(c) : ~CallerTouched(c, i)

(***************************************************************************)
(* C6: unsafe_vec_string_to_static_str copies nothing and retains nothing: *)
(* element i of its output is the very buffer of input element i, and no   *)
(* step of the call changes the heap (no block allocated, released,        *)
(* written or leaked).                                                     *)
(***************************************************************************)
C6_UnsafeAliasesInput ==
    /\ [](\A c \in UnsafeCalls : \A i \in Views(c) : Res(c).out[i] = AsStr(Res(c).vec[i]))
    /\ [][\A t \in Threads :
             ((fn[t] = "unsafe" \/ fn'[t] = "unsafe") /\ <<pc[t], strs[t]>> # <<pc'[t], strs'[t]>>)
                 => heap' = heap]_vars

\* an unsafe call returned views of two non-empty elements
C6_Witness ==
    \E c \in UnsafeCalls :
        Len(Res(c).out) = 2 /\ \A i \in Views(c) : Res(c).out[i].len > 0

(***************************************************************************)
(* C7: once the caller frees, mutates or reallocates the storage of a      *)
(* non-empty input element, the view unsafe_vec_string_to_static_str       *)
(* returned for it refers to released or changed storage, whereas a view   *)
(* returned by vec_string_to_static_str is intact after the same actions.  *)
(***************************************************************************)
C7_UnsafeViewsDangle ==
    /\ \A c \in UnsafeCalls : \A i \in Views(c) :
           (Res(c).content[i] # <<>> /\ CallerTouched(c, i))
               => ~Intact(Res(c).out[i], Res(c).content[i])
    /\ \A c \in SafeCalls : \A i \in Views(c) :
           CallerTouched(c, i) => Intact(Res(c).out[i], Res(c).content[i])

\* a read through an unsafe view can fault or yield other bytes than the content
\* at the call, and a safe call whose input was touched afterwards has returned
C7_Witness ==
    /\ \E c \in UnsafeCalls : \E i \in Views(c) :
           \E o \in ReadOutcomes(Res(c).out[i]) : o.fault \/ o.bytes # Res(c).content[i]
    /\ \E c \in SafeCalls : \E i \in Views(c) :
           Res(c).content[i] # <<>> /\ CallerTouched(c, i)

(***************************************************************************)
(* C8: a call returns the complete output for its whole input or, when an  *)
(* allocation fails, the process terminates: no returned sequence is       *)
(* shorter than the input, and nothing happens after the abort.            *)
(***************************************************************************)
C8_AllOrNothing ==
    /\ [](\A c \in Calls : Len(Res(c).out) = Len(Res(c).vec))
    /\ [][~aborted]_vars

\* the process aborted in the middle of a call that had converted part of its input
C8_Witness ==
    aborted /\ \E t \in Threads : InCall(t) /\ Len(strs[t]) >= 1 /\ MoreElements(t)

(***************************************************************************)
(* C9: with two callers running the functions concurrently on disjoint     *)
(* inputs, steps interleaved in any order, every view a call has produced  *)
(* reads the element of its own input, in order, every returned sequence   *)
(* is complete, and no view of one caller refers to a block of a view or   *)
(* of the input of the other caller.                                       *)
(***************************************************************************)
C9_NoInterference ==
    /\ \A t \in Threads : \A i \in 1..Len(strs[t]) :
           /\ strs[t][i].len = Len(arg[t].content[i])
           /\ ReadStr(strs[t][i]) = arg[t].content[i]
    /\ \A c \in Calls :
           /\ Len(Res(c).out) = Len(Res(c).content)
           /\ \A i \in Views(c) :
                  /\ Res(c).out[i].len = Len(Res(c).content[i])
                  /\ ReadStr(Res(c).out[i]) = Res(c).content[i]
    /\ \A t \in Threads : \A u \in Threads \ {t} :
           ViewPtrs(t) \cap (ViewPtrs(u) \cup InputPtrs(u)) = {}

\* both callers are between clone and leak of an element at the same moment
C9_Witness ==
    /\ pc[1] = "cloned" /\ pc[2] = "cloned"
    /\ boxed[1].len > 0 /\ boxed[2].len > 0

(***************************************************************************)
(* C10: neither function modifies or consumes its input: from the call to  *)
(* the return the caller's vector keeps its length, its buffers and its    *)
(* contents, and the caller still owns every buffer.                       *)
(***************************************************************************)
C10_InputUntouched ==
    [][\A t \in Threads :
          InCall(t) =>
              /\ alive'[t]
              /\ strings'[t] = arg[t].vec
              /\ [k \in 1..Len(strings'[t]) |-> ReadIn(heap', AsStr(strings'[t][k]))]
                     = arg[t].content
              /\ \A k \in 1..Len(strings'[t]) :
                     strings'[t][k].cap > 0 => heap'[strings'[t][k].ptr].st = "owned"]_vars

\* a safe and an unsafe call on a two-element input have both returned
C10_Witness ==
    /\ \E c \in SafeCalls : Len(Res(c).vec) = 2 /\ alive[c[1]]
    /\ \E c \in UnsafeCalls : Len(Res(c).vec) = 2 /\ alive[c[1]]

====
